---- MODULE Spec2Model ----
(***************************************************************************)
(* Risk-scoring engine of momentum_ai (app/risk_scoring.py), the batch job *)
(* that drives it (app/jobs/risk_scoring.py) and the request handlers that *)
(* create and update the records it reads (app/routers/*.py).              *)
(*                                                                         *)
(* Time is counted in ticks, TicksPerDay ticks to a calendar day, so that  *)
(* datetime.date() and timedelta.days are floor divisions.  Python floats  *)
(* are modelled by exact rationals <<numerator, denominator>>.  One call   *)
(* of an engine method is one step and reads the clock once.               *)
(***************************************************************************)
EXTENDS Integers, Sequences, FiniteSets, TLC

----------------------------------------------------------------------------
\* Bounds of the model
MaxStudents == 2
MaxTasks == 1
MaxCheckins == 2
MaxGoals == 1
MaxTicks == 1
MaxEvents == 2
TicksPerDay == 2
MaxRuns == 3
MaxRows == 2
MaxCheckinRows == 3
MaxCompletedRows == 4
MaxPlans == 3
MaxConns == 3

\* RiskScoringEngine.__init__
lookback_days == 14
\* routers/analytics.py get_engagement_analytics
analytics_days == 30

DAY == TicksPerDay
timedelta(days) == days * DAY

----------------------------------------------------------------------------
\* Exact rational arithmetic standing for Python float arithmetic
RECURSIVE GCD(_, _)
GCD(a, b) == IF b = 0 THEN a ELSE GCD(b, a % b)

Abs(x) == IF x < 0 THEN -x ELSE x

Rat(n, d) == LET g == GCD(Abs(n), d) IN <<n \div g, d \div g>>

RAdd(a, b) == Rat(a[1] * b[2] + b[1] * a[2], a[2] * b[2])
RSub(a, b) == Rat(a[1] * b[2] - b[1] * a[2], a[2] * b[2])
RMul(a, b) == Rat(a[1] * b[1], a[2] * b[2])
RLt(a, b) == a[1] * b[2] < b[1] * a[2]
RLe(a, b) == a[1] * b[2] <= b[1] * a[2]
RMin(a, b) == IF RLe(a, b) THEN a ELSE b
RMax(a, b) == IF RLe(a, b) THEN b ELSE a
Zero == Rat(0, 1)
One == Rat(1, 1)

\* A nullable column holds NULL or Some(v)
NULL == {}
Some(v) == {v}
Val(x) == CHOOSE v \in x : TRUE

RECURSIVE SumOver(_, _)
SumOver(f, S) ==
    IF S = {} THEN 0
    ELSE LET i == CHOOSE j \in S : TRUE IN f[i] + SumOver(f, S \ {i})

----------------------------------------------------------------------------
VARIABLES
    now,          \* the system clock, datetime.utcnow(), in ticks
    ticks,        \* number of clock advances so far
    students,     \* table students: id -> [gpa, risk_score], committed
    tasks,        \* table tasks, committed
    checkins,     \* table checkins, committed
    goals,        \* table goals, committed
    events,       \* table events, committed, in insertion order
    db,           \* the ORM session of the running job: its unflushed changes
    job,          \* run_risk_scoring: position, snapshot of students, logs
    last,         \* the outcome of the most recent engine call
    last_update,  \* the run of successful update calls on unchanged records
    runs,         \* concurrent update_student_risk_score calls, one per worker
    plans,        \* table plans: id -> [student_id, active], committed
    manager       \* the ConnectionManager, the websockets and the send under way

vars == <<now, ticks, students, tasks, checkins, goals, events, db, job,
          last, last_update, runs, plans, manager>>

StudentIds == DOMAIN students

----------------------------------------------------------------------------
\* RiskScoringEngine: the six extractors

weights ==
    [overdue_load |-> Rat(30, 100), mood_trend |-> Rat(20, 100),
     streak |-> Rat(15, 100), engagement |-> Rat(15, 100),
     goal_velocity |-> Rat(10, 100), gpa_trend |-> Rat(10, 100)]

FactorNames ==
    <<"overdue_load", "mood_trend", "streak", "engagement",
      "goal_velocity", "gpa_trend">>

OpenStatuses == {"todo", "doing"}

\* Mutant of _calculate_overdue_load: the overdue count has no cutoff
_calculate_overdue_load_no_cutoff(student_id, cutoff_date) ==
    LET total_open ==
            Cardinality({i \in DOMAIN tasks :
                /\ tasks[i].student_id = student_id
                /\ tasks[i].status \in OpenStatuses
                /\ tasks[i].due_date # NULL
                /\ Val(tasks[i].due_date) >= cutoff_date})
        overdue ==
            Cardinality({i \in DOMAIN tasks :
                /\ tasks[i].student_id = student_id
                /\ tasks[i].status \in OpenStatuses
                /\ tasks[i].due_date # NULL
                /\ Val(tasks[i].due_date) < now})
    IN  Rat(overdue, IF total_open > 1 THEN total_open ELSE 1)

_calculate_overdue_load(student_id, cutoff_date) ==
    LET total_open ==
            Cardinality({i \in DOMAIN tasks :
                /\ tasks[i].student_id = student_id
                /\ tasks[i].status \in OpenStatuses
                /\ tasks[i].due_date # NULL
                /\ Val(tasks[i].due_date) >= cutoff_date})
        overdue ==
            Cardinality({i \in DOMAIN tasks :
                /\ tasks[i].student_id = student_id
                /\ tasks[i].status \in OpenStatuses
                /\ tasks[i].due_date # NULL
                /\ Val(tasks[i].due_date) < now
                /\ Val(tasks[i].due_date) >= cutoff_date})
    IN  Rat(overdue, IF total_open > 1 THEN total_open ELSE 1)

MoodOf == [i \in DOMAIN checkins |->
              IF checkins[i].mood = NULL THEN 0 ELSE Val(checkins[i].mood)]

\* Mutant of _calculate_mood_trend: an unreported mood counts as 0
_calculate_mood_trend_null_as_zero(student_id, cutoff_date) ==
    LET current_moods ==
            {i \in DOMAIN checkins :
                /\ checkins[i].student_id = student_id
                /\ checkins[i].created_at >= cutoff_date}
        prior_start == cutoff_date - timedelta(lookback_days)
        prior_moods ==
            {i \in DOMAIN checkins :
                /\ checkins[i].student_id = student_id
                /\ checkins[i].created_at >= prior_start
                /\ checkins[i].created_at < cutoff_date}
    IN  IF current_moods = {} THEN Zero
        ELSE IF prior_moods = {} THEN Zero
        ELSE LET current_avg == Rat(SumOver(MoodOf, current_moods),
                                    Cardinality(current_moods))
                 prior_avg == Rat(SumOver(MoodOf, prior_moods),
                                  Cardinality(prior_moods))
             IN  RSub(prior_avg, current_avg)

\* Mutant of _calculate_mood_trend: the prior period has no start
_calculate_mood_trend_unbounded_prior(student_id, cutoff_date) ==
    LET current_moods ==
            {i \in DOMAIN checkins :
                /\ checkins[i].student_id = student_id
                /\ checkins[i].created_at >= cutoff_date
                /\ checkins[i].mood # NULL}
        prior_moods ==
            {i \in DOMAIN checkins :
                /\ checkins[i].student_id = student_id
                /\ checkins[i].created_at < cutoff_date
                /\ checkins[i].mood # NULL}
    IN  IF current_moods = {} THEN Zero
        ELSE IF prior_moods = {} THEN Zero
        ELSE LET current_avg == Rat(SumOver(MoodOf, current_moods),
                                    Cardinality(current_moods))
                 prior_avg == Rat(SumOver(MoodOf, prior_moods),
                                  Cardinality(prior_moods))
             IN  RSub(prior_avg, current_avg)

_calculate_mood_trend(student_id, cutoff_date) ==
    LET current_moods ==
            {i \in DOMAIN checkins :
                /\ checkins[i].student_id = student_id
                /\ checkins[i].created_at >= cutoff_date
                /\ checkins[i].mood # NULL}
        prior_start == cutoff_date - timedelta(lookback_days)
        prior_moods ==
            {i \in DOMAIN checkins :
                /\ checkins[i].student_id = student_id
                /\ checkins[i].created_at >= prior_start
                /\ checkins[i].created_at < cutoff_date
                /\ checkins[i].mood # NULL}
    IN  IF current_moods = {} THEN Zero
        ELSE IF prior_moods = {} THEN Zero
        ELSE LET current_avg == Rat(SumOver(MoodOf, current_moods),
                                    Cardinality(current_moods))
                 prior_avg == Rat(SumOver(MoodOf, prior_moods),
                                  Cardinality(prior_moods))
             IN  RSub(prior_avg, current_avg)

date(t) == t \div DAY

\* Mutant of StreakFrom: the scan does not stop at a missing day
RECURSIVE StreakPastGaps(_, _, _, _)
StreakPastGaps(completion_dates, current_date, i, max_days) ==
    IF i >= max_days THEN 0
    ELSE (IF (current_date - i) \in completion_dates THEN 1 ELSE 0)
         + StreakPastGaps(completion_dates, current_date, i + 1, max_days)

RECURSIVE StreakFrom(_, _, _, _)
StreakFrom(completion_dates, current_date, i, max_days) ==
    IF i >= max_days THEN i
    ELSE IF (current_date - i) \in completion_dates
         THEN StreakFrom(completion_dates, current_date, i + 1, max_days)
         ELSE i

_calculate_streak(student_id, cutoff_date) ==
    LET completed_tasks ==
            {i \in DOMAIN tasks :
                /\ tasks[i].student_id = student_id
                /\ tasks[i].status = "done"
                /\ tasks[i].completed_at # NULL
                /\ Val(tasks[i].completed_at) >= cutoff_date}
        completion_dates ==
            {date(Val(tasks[i].completed_at)) : i \in completed_tasks}
    IN  IF completed_tasks = {} THEN 0
        ELSE StreakFrom(completion_dates, date(now), 0, lookback_days)

\* Mutant of _calculate_engagement: only rated check-ins count
_calculate_engagement_rated_only(student_id, cutoff_date) ==
    LET in_window ==
            {i \in DOMAIN checkins :
                /\ checkins[i].student_id = student_id
                /\ checkins[i].mood # NULL
                /\ checkins[i].created_at >= cutoff_date}
    IN  IF in_window = {} THEN lookback_days
        ELSE LET last_checkin ==
                     CHOOSE i \in in_window : \A j \in in_window :
                         checkins[j].created_at <= checkins[i].created_at
             IN  (now - checkins[last_checkin].created_at) \div DAY

\* Mutant of _calculate_engagement: no check-in in the window counts as a
\* check-in made now
_calculate_engagement_default_zero(student_id, cutoff_date) ==
    LET in_window ==
            {i \in DOMAIN checkins :
                /\ checkins[i].student_id = student_id
                /\ checkins[i].created_at >= cutoff_date}
    IN  IF in_window = {} THEN 0
        ELSE LET last_checkin ==
                     CHOOSE i \in in_window : \A j \in in_window :
                         checkins[j].created_at <= checkins[i].created_at
             IN  (now - checkins[last_checkin].created_at) \div DAY

_calculate_engagement(student_id, cutoff_date) ==
    LET in_window ==
            {i \in DOMAIN checkins :
                /\ checkins[i].student_id = student_id
                /\ checkins[i].created_at >= cutoff_date}
    IN  IF in_window = {} THEN lookback_days
        ELSE LET last_checkin ==
                     CHOOSE i \in in_window : \A j \in in_window :
                         checkins[j].created_at <= checkins[i].created_at
             IN  (now - checkins[last_checkin].created_at) \div DAY

\* routers/analytics.py get_engagement_analytics: the current streak over
\* the 30-day window of the report
current_streak(student_id) ==
    LET cutoff_date == now - timedelta(analytics_days)
        completed_tasks ==
            {i \in DOMAIN tasks :
                /\ tasks[i].student_id = student_id
                /\ tasks[i].status = "done"
                /\ tasks[i].completed_at # NULL
                /\ Val(tasks[i].completed_at) >= cutoff_date}
        completion_dates ==
            {date(Val(tasks[i].completed_at)) : i \in completed_tasks}
    IN  StreakFrom(completion_dates, date(now), 0, analytics_days)

\* get_engagement_analytics, lines 56-68: the dates of the tasks completed
\* in the 30-day window
completion_dates_of(student_id) ==
    LET cutoff_date == now - timedelta(analytics_days)
        completed_tasks ==
            {i \in DOMAIN tasks :
                /\ tasks[i].student_id = student_id
                /\ tasks[i].status = "done"
                /\ tasks[i].completed_at # NULL
                /\ Val(tasks[i].completed_at) >= cutoff_date}
    IN  {date(Val(tasks[i].completed_at)) : i \in completed_tasks}

\* sorted(completion_dates)
RECURSIVE sorted(_)
sorted(dates) ==
    IF dates = {} THEN <<>>
    ELSE LET first == CHOOSE d \in dates : \A e \in dates : d <= e
         IN  <<first>> \o sorted(dates \ {first})

\* Mutant of LongestStreakLoop: the run that ends at the last date is not
\* compared with the longest run so far
RECURSIVE LongestStreakLoopOpenEnd(_, _, _, _)
LongestStreakLoopOpenEnd(sorted_dates, i, temp_streak, longest_streak) ==
    IF i > Len(sorted_dates) THEN longest_streak
    ELSE IF i = 1 \/ sorted_dates[i] - sorted_dates[i - 1] = 1
         THEN LongestStreakLoopOpenEnd(sorted_dates, i + 1, temp_streak + 1,
                                       longest_streak)
         ELSE LongestStreakLoopOpenEnd(sorted_dates, i + 1, 1,
                  IF longest_streak >= temp_streak THEN longest_streak
                  ELSE temp_streak)

\* Lines 84-93: the loop over sorted_dates from its i-th date on and the
\* max that follows it
RECURSIVE LongestStreakLoop(_, _, _, _)
LongestStreakLoop(sorted_dates, i, temp_streak, longest_streak) ==
    IF i > Len(sorted_dates)
    THEN IF longest_streak >= temp_streak THEN longest_streak
         ELSE temp_streak
    ELSE IF i = 1 \/ sorted_dates[i] - sorted_dates[i - 1] = 1
         THEN LongestStreakLoop(sorted_dates, i + 1, temp_streak + 1,
                                longest_streak)
         ELSE LongestStreakLoop(sorted_dates, i + 1, 1,
                  IF longest_streak >= temp_streak THEN longest_streak
                  ELSE temp_streak)

\* get_engagement_analytics, lines 81-93: the longest streak of the report
longest_streak_of(student_id) ==
    LongestStreakLoop(sorted(completion_dates_of(student_id)), 1, 0, 0)

_calculate_goal_velocity(student_id, cutoff_date) ==
    LET recent_goals ==
            {i \in DOMAIN goals :
                /\ goals[i].student_id = student_id
                /\ goals[i].target_date # NULL
                /\ Val(goals[i].target_date) >= cutoff_date}
        completed_on_time ==
            {i \in recent_goals :
                /\ goals[i].status = "done"
                /\ \/ goals[i].target_date # NULL
                      /\ Val(goals[i].target_date) >= now
                   \/ goals[i].target_date = NULL}
    IN  IF recent_goals = {} THEN One
        ELSE Rat(Cardinality(completed_on_time), Cardinality(recent_goals))

\* Mutant of _calculate_gpa_trend: the trend is read off the stored GPA
_calculate_gpa_trend_of_stored_gpa(student_id, cutoff_date) ==
    IF students[student_id].gpa = NULL THEN Zero ELSE One

_calculate_gpa_trend(student_id, cutoff_date) == Zero

\* The six normalizers
_normalize_overdue_load(overdue_load) == RMin(One, overdue_load)

\* Mutant of _normalize_mood_trend: the scale is not inverted
_normalize_mood_trend_rising(mood_trend) ==
    RMax(Zero, RMin(One, RMul(RSub(Rat(2, 1), mood_trend), Rat(1, 4))))

_normalize_mood_trend(mood_trend) ==
    RMax(Zero, RMin(One, RMul(RAdd(mood_trend, Rat(2, 1)), Rat(1, 4))))

\* Mutant of _normalize_streak: the scale is not inverted
_normalize_streak_rising(streak) == RMin(One, Rat(streak, 7))

_normalize_streak(streak) == RSub(One, RMin(One, Rat(streak, 7)))

_normalize_engagement(engagement_gap) == RMin(One, Rat(engagement_gap, 7))

_normalize_goal_velocity(goal_velocity) == RSub(One, goal_velocity)

_normalize_gpa_trend(gpa_trend) == Rat(1, 2)

\* Mutant of _get_severity: the boundaries belong to the lower tier
_get_severity_inclusive(risk_score) ==
    IF RLe(risk_score, Rat(33, 100)) THEN "low"
    ELSE IF RLe(risk_score, Rat(66, 100)) THEN "medium"
    ELSE "high"

_get_severity(risk_score) ==
    IF RLt(risk_score, Rat(33, 100)) THEN "low"
    ELSE IF RLt(risk_score, Rat(66, 100)) THEN "medium"
    ELSE "high"

RECURSIVE WeightedSum(_, _)
WeightedSum(normalized_factors, k) ==
    IF k = 0 THEN Zero
    ELSE RAdd(WeightedSum(normalized_factors, k - 1),
              RMul(weights[FactorNames[k]],
                   normalized_factors[FactorNames[k]]))

\* calculate_student_risk, lines 33-39: the raw factors
RawFactors(student_id) ==
    LET cutoff_date == now - timedelta(lookback_days) IN
    [overdue_load |-> _calculate_overdue_load(student_id, cutoff_date),
     mood_trend |-> _calculate_mood_trend(student_id, cutoff_date),
     streak |-> _calculate_streak(student_id, cutoff_date),
     engagement |-> _calculate_engagement(student_id, cutoff_date),
     goal_velocity |-> _calculate_goal_velocity(student_id, cutoff_date),
     gpa_trend |-> _calculate_gpa_trend(student_id, cutoff_date)]

\* calculate_student_risk, lines 41-49: the normalized factors
NormalizedFactors(factors) ==
    [overdue_load |-> _normalize_overdue_load(factors.overdue_load),
     mood_trend |-> _normalize_mood_trend(factors.mood_trend),
     streak |-> _normalize_streak(factors.streak),
     engagement |-> _normalize_engagement(factors.engagement),
     goal_velocity |-> _normalize_goal_velocity(factors.goal_velocity),
     gpa_trend |-> _normalize_gpa_trend(factors.gpa_trend)]

\* Mutant of calculate_student_risk: the weights are applied to the raw
\* factors and the sum is not clamped
calculate_student_risk_raw_unclamped(student_id) ==
    LET factors == RawFactors(student_id)
        as_floats == [factors EXCEPT !.streak = Rat(@, 1),
                                     !.engagement = Rat(@, 1)]
        risk_score == WeightedSum(as_floats, 6)
    IN  [risk_score |-> risk_score,
         factors |-> factors,
         normalized_factors |-> NormalizedFactors(factors),
         severity |-> _get_severity(risk_score)]

\* calculate_student_risk, lines 41-72: the result built from the raw factors
risk_data_of(factors) ==
    LET normalized_factors == NormalizedFactors(factors)
        risk_score ==
            RMax(Zero, RMin(One, WeightedSum(normalized_factors, 6)))
    IN  [risk_score |-> risk_score,
         factors |-> factors,
         normalized_factors |-> normalized_factors,
         severity |-> _get_severity(risk_score)]

\* calculate_student_risk for a student id that resolves
calculate_student_risk(student_id) == risk_data_of(RawFactors(student_id))

----------------------------------------------------------------------------
\* The ORM session (database.py: autocommit=False, autoflush=False) is the
\* map of the risk scores assigned to loaded Student objects and not yet
\* flushed.  Queries read the committed tables; commit() flushes every
\* pending change of the session in one transaction; a failed flush rolls
\* the transaction back and discards the pending changes.
SessionLocal == [i \in {} |-> Zero]

\* The statement at which the environment makes a call fail
FailPoints == {"none", "calc", "assign", "append", "commit"}

NoResult == <<>>

\* Mutant of Flushed: the pending score assignments are not written
NotFlushed(st, dirty) == st

\* Session.flush() of the pending score assignments
Flushed(st, dirty) ==
    [i \in DOMAIN st |->
        IF i \in DOMAIN dirty THEN [st[i] EXCEPT !.risk_score = dirty[i]]
        ELSE st[i]]

\* Mutant of Assigned: the new score is averaged with the score held so far
AssignedAveraged(dirty, student_id, risk_score) ==
    [i \in (DOMAIN dirty) \cup {student_id} |->
        IF i = student_id
        THEN RMul(RAdd(IF i \in DOMAIN dirty THEN dirty[i]
                       ELSE students[i].risk_score, risk_score), Rat(1, 2))
        ELSE dirty[i]]

\* student.risk_score = risk_data['risk_score'] on an object of the session
Assigned(dirty, student_id, risk_score) ==
    [i \in (DOMAIN dirty) \cup {student_id} |->
        IF i = student_id THEN risk_score ELSE dirty[i]]

\* Mutant of Event: the payload carries the score stored before the run
EventOfStoredScore(student_id, risk_data) ==
    [student_id |-> student_id,
     type |-> "risk_score_updated",
     payload |-> [risk_score |-> students[student_id].risk_score,
                  severity |-> risk_data.severity,
                  factors |-> risk_data.factors]]

Event(student_id, risk_data) ==
    [student_id |-> student_id,
     type |-> "risk_score_updated",
     payload |-> [risk_score |-> risk_data.risk_score,
                  severity |-> risk_data.severity,
                  factors |-> risk_data.factors]]

Raised(outcome, session) ==
    [outcome |-> outcome, data |-> NoResult, students |-> students,
     events |-> events, db |-> session]

\* Mutant of calculate: the student is not looked up
calculate_unchecked(session, student_id, fail) ==
    IF fail = "calc" THEN Raised("error", session)
    ELSE [outcome |-> "ok", data |-> calculate_student_risk(student_id),
          students |-> students, events |-> events, db |-> session]

\* calculate_student_risk as called on a session: what it returns or raises
calculate(session, student_id, fail) ==
    IF student_id \notin StudentIds THEN Raised("not_found", session)
    ELSE IF fail = "calc" THEN Raised("error", session)
    ELSE [outcome |-> "ok", data |-> calculate_student_risk(student_id),
          students |-> students, events |-> events, db |-> session]

\* update_student_risk_score: the value returned or the exception raised,
\* the committed tables and the session it leaves behind
update_student_risk_score(session, student_id, fail) ==
    LET calc == calculate(session, student_id, fail) IN
    IF calc.outcome # "ok" THEN calc
    ELSE IF student_id \notin StudentIds THEN calc
    ELSE IF fail = "assign" THEN Raised("error", session)
    ELSE LET risk_data == calc.data
             dirty == Assigned(session, student_id, risk_data.risk_score)
         IN  IF fail = "append" THEN Raised("error", dirty)
             ELSE IF fail = "commit" THEN Raised("flush_error", SessionLocal)
             ELSE [outcome |-> "ok", data |-> risk_data,
                   students |-> Flushed(students, dirty),
                   events |-> Append(events, Event(student_id, risk_data)),
                   db |-> SessionLocal]

\* risk_score of a Student object as a session sees it
Loaded(session, student_id) ==
    IF student_id \in DOMAIN session THEN session[student_id]
    ELSE students[student_id].risk_score

\* Mutant of get_high_risk_students: scores above the threshold only
get_high_risk_students_strict(session, threshold) ==
    LET high_risk_students ==
            SelectSeq([i \in 1..Len(students) |-> i],
                      LAMBDA i : RLt(threshold, students[i].risk_score))
    IN  [k \in 1..Len(high_risk_students) |->
            [student_id |-> high_risk_students[k],
             risk_score |-> Loaded(session, high_risk_students[k])]]

get_high_risk_students(session, threshold) ==
    LET high_risk_students ==
            SelectSeq([i \in 1..Len(students) |-> i],
                      LAMBDA i : RLe(threshold, students[i].risk_score))
    IN  [k \in 1..Len(high_risk_students) |->
            [student_id |-> high_risk_students[k],
             risk_score |-> Loaded(session, high_risk_students[k])]]

\* Mutant of DefaultThreshold: the default is the "medium" boundary
DefaultThresholdMedium == Rat(33, 100)

DefaultThreshold == Rat(66, 100)

EventsOf(student_id) ==
    SelectSeq(events, LAMBDA e : e.student_id = student_id
                                 /\ e.type = "risk_score_updated")

----------------------------------------------------------------------------
\* Inputs of the operations
TaskStatuses == {"todo", "doing", "done", "overdue"}
GoalStatuses == {"open", "done", "paused"}
MoodValues == {1, 5}
GpaValues == {NULL, Some(3)}
DateOffsets == {-1, 1}
TickSteps == {1, timedelta(lookback_days) + 1}
UnknownId == MaxStudents + 1

NoCall == [op |-> "none", arg |-> 0, outcome |-> "none", data |-> NoResult]
NoRun == [k |-> 0, student_id |-> 0, at |-> 0, score |-> Zero,
          prev_score |-> Zero, n0 |-> 0, same_clock |-> FALSE]
Workers == {1, 2}
NoWork == [pc |-> "idle", student_id |-> 0, loaded |-> Zero,
           data |-> NoResult, with |-> {}, seq |-> 0]
NoJob == [pc |-> "idle", students |-> <<>>, i |-> 0,
          high_risk_students |-> <<>>, log |-> <<>>, failed |-> <<>>,
          events0 |-> 0, result |-> "none"]

\* websocket_manager.py: the websockets that may connect, and the user the
\* token of each authenticates
Conns == 1..MaxConns
UserOf(c) == IF c <= 2 THEN 1 ELSE 2

\* No send_personal_message or broadcast is under way
NoOp == [kind |-> "none", pc |-> "idle", user_id |-> 0, size |-> 0,
         iterated |-> {}, live |-> FALSE, visited |-> {}, current |-> 0,
         disconnected |-> {}, outcome |-> "none"]

\* ConnectionManager.__init__ and websockets not yet accepted
NoManager == [active_connections |-> {},
              user_connections |-> [u \in {} |-> {}],
              sockets |-> [c \in Conns |-> "new"],
              op |-> NoOp]

Init ==
    /\ now = 0
    /\ ticks = 0
    /\ students = <<>>
    /\ tasks = <<>>
    /\ checkins = <<>>
    /\ goals = <<>>
    /\ events = <<>>
    /\ db = SessionLocal
    /\ job = NoJob
    /\ last = NoCall
    /\ last_update = NoRun
    /\ runs = [w \in Workers |-> NoWork]
    /\ plans = <<>>
    /\ manager = NoManager

\* The clock advances
Tick(d) ==
    /\ ticks < MaxTicks
    /\ now' = now + d
    /\ ticks' = ticks + 1
    /\ UNCHANGED <<plans, manager, runs, students, tasks, checkins, goals, events, db, job,
                   last, last_update>>

----------------------------------------------------------------------------
\* Request handlers (routers/*.py).  Each runs on a session of its own
\* (get_db) and commits the one row it adds or changes.

Put(f, k, v) == [i \in (DOMAIN f) \cup {k} |-> IF i = k THEN v ELSE f[i]]

\* routers/students.py create_student
create_student(gpa) ==
    /\ Len(students) < MaxStudents
    /\ students' = Append(students, [gpa |-> gpa, risk_score |-> Zero])
    /\ last' = NoCall
    /\ UNCHANGED <<plans, manager, runs, now, ticks, tasks, checkins, goals, events, db, job,
                   last_update>>

\* Mutant of StudentUpdateFields: the update body carries risk_score, 0.0
\* by default
StudentUpdateFieldsWithScore(student, update_data) ==
    [student EXCEPT !.gpa = update_data.gpa, !.risk_score = Zero]

\* setattr(student, field, value) for the fields of StudentUpdate
StudentUpdateFields(student, update_data) ==
    [student EXCEPT !.gpa = update_data.gpa]

\* routers/students.py update_student
update_student(student_id, update_data) ==
    /\ student_id \in StudentIds
    /\ students' = [students EXCEPT ![student_id] =
                       StudentUpdateFields(students[student_id], update_data)]
    /\ last' = NoCall
    /\ UNCHANGED <<plans, manager, runs, now, ticks, tasks, checkins, goals, events, db, job,
                   last_update>>

\* routers/tasks.py create_task
create_task(student_id, due_date) ==
    /\ student_id \in StudentIds
    /\ Len(tasks) < MaxTasks
    /\ tasks' = Append(tasks, [student_id |-> student_id, status |-> "todo",
                               due_date |-> due_date, completed_at |-> NULL])
    /\ last' = NoCall
    /\ last_update' = NoRun
    /\ UNCHANGED <<plans, manager, runs, now, ticks, students, checkins, goals, events, db, job>>

\* The fields a TaskUpdate body sets: NULL stands for a field left unset
TaskUpdates ==
    [status : {NULL} \cup {Some(st) : st \in TaskStatuses},
     completed_at : {NULL, Some(NULL), Some(Some(now))}]

\* routers/tasks.py update_task
update_task(task_id, task_data) ==
    /\ task_id \in DOMAIN tasks
    /\ LET task == tasks[task_id]
           to_done == task_data.status = Some("done") /\ task.status # "done"
           completed_at ==
               IF to_done THEN Some(now)
               ELSE IF task_data.completed_at # NULL
                    THEN Val(task_data.completed_at)
                    ELSE task.completed_at
           status == IF task_data.status # NULL THEN Val(task_data.status)
                     ELSE task.status
       IN  tasks' = [tasks EXCEPT ![task_id] =
                        [task EXCEPT !.status = status,
                                     !.completed_at = completed_at]]
    /\ last' = NoCall
    /\ last_update' = NoRun
    /\ UNCHANGED <<plans, manager, runs, now, ticks, students, checkins, goals, events, db, job>>

\* routers/checkins.py create_checkin
create_checkin(student_id, mood) ==
    /\ student_id \in StudentIds
    /\ Len(checkins) < MaxCheckins
    /\ checkins' = Append(checkins, [student_id |-> student_id, mood |-> mood,
                                     created_at |-> now])
    /\ last' = NoCall
    /\ last_update' = NoRun
    /\ UNCHANGED <<plans, manager, runs, now, ticks, students, tasks, goals, events, db, job>>

\* routers/goals.py create_goal
create_goal(student_id, target_date) ==
    /\ student_id \in StudentIds
    /\ Len(goals) < MaxGoals
    /\ goals' = Append(goals, [student_id |-> student_id, status |-> "open",
                               target_date |-> target_date])
    /\ last' = NoCall
    /\ last_update' = NoRun
    /\ UNCHANGED <<plans, manager, runs, now, ticks, students, tasks, checkins, events, db, job>>

\* routers/goals.py update_goal
update_goal(goal_id, status) ==
    /\ goal_id \in DOMAIN goals
    /\ goals' = [goals EXCEPT ![goal_id].status = status]
    /\ last' = NoCall
    /\ last_update' = NoRun
    /\ UNCHANGED <<plans, manager, runs, now, ticks, students, tasks, checkins, events, db, job>>

----------------------------------------------------------------------------
\* Calls of the engine on a session of the caller (demo.py, routers/
\* analytics.py, tests): the caller rolls back and closes it on an exception

CalculateStudentRisk(student_id, fail) ==
    /\ LET r == calculate(SessionLocal, student_id, fail)
       IN  last' = [op |-> "calculate", arg |-> student_id,
                    outcome |-> r.outcome, data |-> r.data]
    /\ last_update' = NoRun
    /\ UNCHANGED <<plans, manager, runs, now, ticks, students, tasks, checkins, goals, events, db,
                   job>>

UpdateStudentRiskScore(student_id, fail) ==
    /\ job.pc = "idle"
    /\ Len(events) < MaxEvents
    /\ LET r == update_student_risk_score(SessionLocal, student_id, fail)
           again == last_update.k >= 1 /\ last_update.student_id = student_id
       IN  /\ students' = r.students
           /\ events' = r.events
           /\ last' = [op |-> "update", arg |-> student_id,
                       outcome |-> r.outcome, data |-> r.data]
           /\ last_update' =
                 IF r.outcome # "ok" THEN NoRun
                 ELSE [k |-> IF again THEN 2 ELSE 1,
                       student_id |-> student_id,
                       at |-> now,
                       score |-> r.data.risk_score,
                       prev_score |-> IF again THEN last_update.score
                                      ELSE Zero,
                       n0 |-> Len(EventsOf(student_id)) -
                              (IF again THEN 1 ELSE 0),
                       same_clock |-> again /\ last_update.at = now]
    /\ UNCHANGED <<plans, manager, runs, now, ticks, tasks, checkins, goals, db, job>>

Thresholds ==
    {DefaultThreshold, Rat(6, 10)} \cup
    {students[i].risk_score : i \in StudentIds}

\* _get_severity applied to a score
SeverityInputs ==
    {Rat(329, 1000), Rat(33, 100), Rat(659999, 1000000), Rat(66, 100)}

GetSeverity(risk_score) ==
    /\ last' = [op |-> "severity", arg |-> risk_score, outcome |-> "ok",
                data |-> _get_severity(risk_score)]
    /\ last_update' = NoRun
    /\ UNCHANGED <<plans, manager, runs, now, ticks, students, tasks, checkins, goals, events, db,
                   job>>

GetHighRiskStudents(threshold) ==
    /\ last' = [op |-> "high_risk", arg |-> threshold, outcome |-> "ok",
                data |-> get_high_risk_students(SessionLocal, threshold)]
    /\ last_update' = NoRun
    /\ UNCHANGED <<plans, manager, runs, now, ticks, students, tasks, checkins, goals, events, db,
                   job>>

----------------------------------------------------------------------------
\* jobs/risk_scoring.py run_risk_scoring, one step per student

JobStart ==
    /\ job.pc = "idle"
    /\ db' = SessionLocal
    /\ job' = [pc |-> "loop",
               students |-> [i \in 1..Len(students) |-> i],
               i |-> 1,
               high_risk_students |-> <<>>,
               log |-> <<>>,
               failed |-> <<>>,
               events0 |-> Len(events),
               result |-> "running"]
    /\ last' = NoCall
    /\ last_update' = NoRun
    /\ UNCHANGED <<plans, manager, runs, now, ticks, students, tasks, checkins, goals, events>>

\* One iteration of the for loop.  After a failed flush every object of the
\* session is expired and the session refuses queries until rollback(), so
\* student.id in the inner except clause raises and the job ends in the
\* outer except clause.
JobStep(fail) ==
    /\ job.pc = "loop"
    /\ job.i <= Len(job.students)
    /\ Len(events) < MaxEvents
    /\ LET student_id == job.students[job.i]
           r == update_student_risk_score(db, student_id, fail)
           before == [risk_score |-> students[student_id].risk_score,
                      n |-> Len(EventsOf(student_id))]
       IN  /\ students' = r.students
           /\ events' = r.events
           /\ IF r.outcome = "ok"
              THEN /\ db' = r.db
                   /\ job' = [job EXCEPT
                         !.i = @ + 1,
                         !.high_risk_students =
                             IF r.data.severity = "high"
                             THEN Append(@, [student_id |-> student_id,
                                     risk_score |-> r.data.risk_score])
                             ELSE @,
                         !.log = Append(@, [student_id |-> student_id,
                                     level |-> "info",
                                     risk_score |-> r.data.risk_score,
                                     severity |-> r.data.severity])]
              ELSE IF r.outcome = "flush_error"
              THEN /\ db' = SessionLocal
                   /\ job' = [job EXCEPT
                         !.pc = "idle",
                         !.result = "raised",
                         !.failed = Put(@, student_id, before)]
              ELSE /\ db' = r.db
                   /\ job' = [job EXCEPT
                         !.i = @ + 1,
                         !.failed = Put(@, student_id, before),
                         !.log = Append(@, [student_id |-> student_id,
                                     level |-> "error",
                                     risk_score |-> Zero,
                                     severity |-> "none"])]
    /\ last' = NoCall
    /\ last_update' = NoRun
    /\ UNCHANGED <<plans, manager, runs, now, ticks, tasks, checkins, goals>>

\* The loop is over: alerts are logged, the session is closed
JobFinish ==
    /\ job.pc = "loop"
    /\ job.i > Len(job.students)
    /\ db' = SessionLocal
    /\ job' = [job EXCEPT !.pc = "idle", !.result = "completed"]
    /\ UNCHANGED <<plans, manager, runs, now, ticks, students, tasks, checkins, goals, events,
                   last, last_update>>

\* Lines 62-74: the students of high_risk_students logged as high-risk.
\* The statements are reached only when the loop ends without raising.
alerts ==
    IF job.result = "completed" THEN job.high_risk_students ELSE <<>>

\* The job is cancelled between two students: finally closes the session
JobCancel ==
    /\ job.pc = "loop"
    /\ job.i <= Len(job.students)
    /\ db' = SessionLocal
    /\ job' = [job EXCEPT !.pc = "idle", !.result = "cancelled"]
    /\ UNCHANGED <<plans, manager, runs, now, ticks, students, tasks, checkins, goals, events,
                   last, last_update>>

----------------------------------------------------------------------------
\* update_student_risk_score called by two workers at once, each on a
\* session of its own.  Lines 251-268 read the committed tables and change
\* only the worker's session; line 269 commits.

\* Session.flush() of one loaded Student: the unit of work compares the
\* assigned value with the value the object was loaded with and emits no
\* UPDATE when the two are equal
FlushedFrom(st, student_id, loaded, risk_score) ==
    IF risk_score = loaded THEN st
    ELSE [st EXCEPT ![student_id].risk_score = risk_score]

\* Lines 251-268: calculate, load the student, assign the score, add the
\* event
RunCompute(w, student_id) ==
    /\ runs[w].pc \in {"idle", "done"}
    /\ student_id \in StudentIds
    /\ Len(events) + Cardinality({v \in Workers : runs[v].pc = "computed"})
           < MaxRuns
    /\ runs' = [runs EXCEPT ![w] =
           [pc |-> "computed",
            student_id |-> student_id,
            loaded |-> students[student_id].risk_score,
            data |-> calculate_student_risk(student_id),
            with |-> {v \in Workers \ {w} :
                        /\ runs[v].pc = "computed"
                        /\ runs[v].student_id = student_id},
            seq |-> 0]]
    /\ last' = NoCall
    /\ last_update' = NoRun
    /\ UNCHANGED <<plans, manager, now, ticks, students, tasks, checkins, goals, events, db,
                   job>>

\* Line 269: self.db.commit()
RunCommit(w) ==
    /\ runs[w].pc = "computed"
    /\ students' = FlushedFrom(students, runs[w].student_id, runs[w].loaded,
                               runs[w].data.risk_score)
    /\ events' = Append(events, Event(runs[w].student_id, runs[w].data))
    /\ runs' = [runs EXCEPT ![w].pc = "done", ![w].seq = Len(events) + 1]
    /\ last' = [op |-> "update", arg |-> runs[w].student_id,
                outcome |-> "ok", data |-> runs[w].data]
    /\ last_update' = NoRun
    /\ UNCHANGED <<plans, manager, now, ticks, tasks, checkins, goals, db, job>>

----------------------------------------------------------------------------
Dates == {NULL} \cup {Some(now + d) : d \in DateOffsets}
Moods == {NULL} \cup {Some(m) : m \in MoodValues}

\* The engine over students and their tasks
Next ==
    \/ \E d \in TickSteps : Tick(d)
    \/ \E gpa \in GpaValues : create_student(gpa)
    \/ \E id \in StudentIds, gpa \in GpaValues :
          update_student(id, [gpa |-> gpa])
    \/ \E id \in StudentIds, d \in DateOffsets : create_task(id, Some(now + d))
    \/ \E id \in DOMAIN tasks :
          update_task(id, [status |-> Some("done"), completed_at |-> NULL])
    \/ \E id \in 1..UnknownId, f \in {"none", "calc"} :
          CalculateStudentRisk(id, f)
    \/ \E id \in 1..UnknownId, f \in FailPoints :
          UpdateStudentRiskScore(id, f)
    \/ \E th \in Thresholds : GetHighRiskStudents(th)

Spec == Init /\ [][Next]_vars

\* The batch job over students and their tasks
NextJob ==
    \/ \E d \in TickSteps : Tick(d)
    \/ create_student(NULL)
    \/ \E id \in StudentIds, d \in DateOffsets : create_task(id, Some(now + d))
    \/ \E id \in 1..UnknownId, f \in FailPoints :
          UpdateStudentRiskScore(id, f)
    \/ JobStart
    \/ \E f \in FailPoints : JobStep(f)
    \/ JobFinish
    \/ JobCancel

SpecJob == Init /\ [][NextJob]_vars

\* The score of one student over every history of its tasks, check-ins and
\* goals
NextCalc ==
    \/ \E d \in TickSteps : Tick(d)
    \/ students = <<>> /\ create_student(NULL)
    \/ \E id \in StudentIds, d \in DateOffsets : create_task(id, Some(now + d))
    \/ \E id \in DOMAIN tasks, st \in {"doing", "done"} :
          update_task(id, [status |-> Some(st), completed_at |-> NULL])
    \/ \E id \in StudentIds, mood \in Moods : create_checkin(id, mood)
    \/ \E id \in StudentIds, d \in DateOffsets : create_goal(id, Some(now + d))
    \/ \E id \in DOMAIN goals : update_goal(id, "done")
    \/ \E id \in 1..UnknownId, f \in {"none", "calc"} :
          CalculateStudentRisk(id, f)
    \/ \E sc \in SeverityInputs : GetSeverity(sc)

SpecCalc == Init /\ [][NextCalc]_vars

\* The extractors over stored rows.  The initial states are tables the
\* handlers can have written by the time Epoch: rows of two students with
\* dates on both sides of the cutoff and of the clock.
Epoch == timedelta(2 * lookback_days) + DAY

TwoStudents == <<[gpa |-> NULL, risk_score |-> Zero],
                 [gpa |-> NULL, risk_score |-> Zero]>>

SeqsUpTo(S, n) == UNION {[1..k -> S] : k \in 0..n}

DueDates ==
    {NULL} \cup {Some(Epoch + d) :
                    d \in {-timedelta(lookback_days) - 1,
                           -timedelta(lookback_days), -1, 0, 1}}

TaskRows ==
    [student_id : {1, 2}, status : {"todo", "done"}, due_date : DueDates,
     completed_at : {NULL}]

InitOverdue ==
    /\ now = Epoch
    /\ ticks = 0
    /\ students = TwoStudents
    /\ tasks \in SeqsUpTo(TaskRows, MaxRows)
    /\ checkins = <<>>
    /\ goals = <<>>
    /\ events = <<>>
    /\ db = SessionLocal
    /\ job = NoJob
    /\ last = NoCall
    /\ last_update = NoRun
    /\ runs = [w \in Workers |-> NoWork]
    /\ plans = <<>>
    /\ manager = NoManager

NextOverdue ==
    \/ \E d \in TickSteps : Tick(d)
    \/ \E id \in DOMAIN tasks :
          update_task(id, [status |-> Some("doing"), completed_at |-> NULL])
    \/ \E id \in StudentIds : CalculateStudentRisk(id, "none")

SpecOverdue == InitOverdue /\ [][NextOverdue]_vars

\* Check-in rows in the order they were inserted: created_at is the server
\* clock at the insert, so it never decreases along the table and, while
\* the server's clock is not ahead of utcnow(), never exceeds the clock
CreatedAts ==
    {Epoch + d : d \in {-timedelta(2 * lookback_days) - 1,
                        -timedelta(2 * lookback_days),
                        -timedelta(lookback_days) - 1,
                        -timedelta(lookback_days), 0}}

CheckinRows ==
    [student_id : {1, 2}, mood : {NULL, Some(2), Some(5)},
     created_at : CreatedAts]

InitMood ==
    /\ now = Epoch
    /\ ticks = 0
    /\ students = TwoStudents
    /\ tasks = <<>>
    /\ checkins \in {c \in SeqsUpTo(CheckinRows, MaxCheckinRows) :
                         \A i, j \in DOMAIN c :
                             i < j => c[i].created_at <= c[j].created_at}
    /\ goals = <<>>
    /\ events = <<>>
    /\ db = SessionLocal
    /\ job = NoJob
    /\ last = NoCall
    /\ last_update = NoRun
    /\ runs = [w \in Workers |-> NoWork]
    /\ plans = <<>>
    /\ manager = NoManager

MoodTrendInputs == {Rat(k, 2) : k \in {-5, -4, 0, 1, 4}}

\* _normalize_mood_trend applied to a trend
NormalizeMoodTrend(mood_trend) ==
    /\ last' = [op |-> "normalize_mood_trend", arg |-> mood_trend,
                outcome |-> "ok", data |-> _normalize_mood_trend(mood_trend)]
    /\ last_update' = NoRun
    /\ UNCHANGED <<plans, manager, now, ticks, students, tasks, checkins, goals, events, db,
                   job, runs>>

NextMood ==
    \/ Tick(1)
    \/ \E id \in StudentIds, mood \in Moods : create_checkin(id, mood)
    \/ \E id \in StudentIds : CalculateStudentRisk(id, "none")
    \/ \E x \in MoodTrendInputs : NormalizeMoodTrend(x)

SpecMood == InitMood /\ [][NextMood]_vars

\* Task rows with completion timestamps today, late yesterday, two days ago
\* and in the middle of the day five days ago
CompletedAts ==
    {Some(Epoch), Some(Epoch - 1), Some(Epoch - timedelta(2)),
     Some(Epoch - timedelta(5) + 1)}

CompletedRows ==
    [student_id : {1, 2}, status : {"todo", "done"}, due_date : {NULL},
     completed_at : CompletedAts]

InitStreak ==
    /\ now = Epoch
    /\ ticks = 0
    /\ students = TwoStudents
    /\ tasks \in {t \in SeqsUpTo(CompletedRows, MaxCompletedRows) :
                      \A i, j \in DOMAIN t :
                          i < j => Val(t[i].completed_at)
                                       <= Val(t[j].completed_at)}
    /\ checkins = <<>>
    /\ goals = <<>>
    /\ events = <<>>
    /\ db = SessionLocal
    /\ job = NoJob
    /\ last = NoCall
    /\ last_update = NoRun
    /\ runs = [w \in Workers |-> NoWork]
    /\ plans = <<>>
    /\ manager = NoManager

\* routers/analytics.py get_engagement_analytics
GetEngagementAnalytics(student_id) ==
    /\ student_id \in StudentIds
    /\ last' = [op |-> "engagement_analytics", arg |-> student_id,
                outcome |-> "ok",
                data |-> [current_streak |-> current_streak(student_id),
                          longest_streak |->
                              longest_streak_of(student_id)]]
    /\ last_update' = NoRun
    /\ UNCHANGED <<plans, manager, now, ticks, students, tasks, checkins, goals, events, db,
                   job, runs>>

NextStreak ==
    \/ \E d \in TickSteps : Tick(d)
    \/ \E id \in StudentIds : CalculateStudentRisk(id, "none")
    \/ \E id \in StudentIds : GetEngagementAnalytics(id)

SpecStreak == InitStreak /\ [][NextStreak]_vars

\* Check-in rows from just before the window up to the clock
RecentCreatedAts ==
    {Epoch + d : d \in {-timedelta(lookback_days) - 1,
                        -timedelta(lookback_days),
                        -timedelta(3) - 1, -timedelta(1), -1, 0}}

RecentCheckinRows ==
    [student_id : {1, 2}, mood : {NULL, Some(5)},
     created_at : RecentCreatedAts]

InitEngagement ==
    /\ now = Epoch
    /\ ticks = 0
    /\ students = TwoStudents
    /\ tasks = <<>>
    /\ checkins \in {c \in SeqsUpTo(RecentCheckinRows, MaxCheckinRows) :
                         \A i, j \in DOMAIN c :
                             i < j => c[i].created_at <= c[j].created_at}
    /\ goals = <<>>
    /\ events = <<>>
    /\ db = SessionLocal
    /\ job = NoJob
    /\ last = NoCall
    /\ last_update = NoRun
    /\ runs = [w \in Workers |-> NoWork]
    /\ plans = <<>>
    /\ manager = NoManager

NextEngagement ==
    \/ Tick(1)
    \/ \E id \in StudentIds, mood \in Moods : create_checkin(id, mood)
    \/ \E id \in StudentIds : CalculateStudentRisk(id, "none")

SpecEngagement == InitEngagement /\ [][NextEngagement]_vars

\* Goal rows with and without target date, on both sides of the cutoff and
\* of the clock
TargetDates ==
    {NULL} \cup {Some(Epoch + d) :
                    d \in {-timedelta(lookback_days) - 1,
                           -timedelta(lookback_days), -1, 0, 1}}

GoalRows ==
    [student_id : {1, 2}, status : {"open", "done"},
     target_date : TargetDates]

InitGoals ==
    /\ now = Epoch
    /\ ticks = 0
    /\ students = TwoStudents
    /\ tasks = <<>>
    /\ checkins = <<>>
    /\ goals \in SeqsUpTo(GoalRows, MaxRows)
    /\ events = <<>>
    /\ db = SessionLocal
    /\ job = NoJob
    /\ last = NoCall
    /\ last_update = NoRun
    /\ runs = [w \in Workers |-> NoWork]
    /\ plans = <<>>
    /\ manager = NoManager

NextGoals ==
    \/ \E d \in TickSteps : Tick(d)
    \/ \E id \in DOMAIN goals : update_goal(id, "done")
    \/ \E id \in StudentIds : CalculateStudentRisk(id, "none")

SpecGoals == InitGoals /\ [][NextGoals]_vars

\* The engine over stored task rows of two students whose stored scores,
\* GPAs and events change
NextStores ==
    \/ \E id \in StudentIds, gpa \in GpaValues :
          update_student(id, [gpa |-> gpa])
    \/ \E id \in StudentIds : UpdateStudentRiskScore(id, "none")
    \/ \E id \in StudentIds : CalculateStudentRisk(id, "none")

SpecStores == InitOverdue /\ [][NextStores]_vars

\* Open tasks of two students are taken up and completed
NextComplete ==
    \/ Tick(1)
    \/ \E id \in DOMAIN tasks, st \in {"doing", "done"} :
          update_task(id, [status |-> Some(st), completed_at |-> NULL])
    \/ \E id \in StudentIds : CalculateStudentRisk(id, "none")

SpecComplete == InitOverdue /\ [][NextComplete]_vars

\* Check-in rows stamped by the database server (models.py: server_default
\* func.now()), whose clock can be ahead of the clock utcnow() reads
ServerCreatedAts ==
    {Epoch + d : d \in {-timedelta(lookback_days), -1, 0, 1, timedelta(1)}}

ServerCheckinRows ==
    [student_id : {1, 2}, mood : {NULL, Some(5)},
     created_at : ServerCreatedAts]

InitServerClock ==
    /\ now = Epoch
    /\ ticks = 0
    /\ students = TwoStudents
    /\ tasks = <<>>
    /\ checkins \in {c \in SeqsUpTo(ServerCheckinRows, MaxRows) :
                         \A i, j \in DOMAIN c :
                             i < j => c[i].created_at <= c[j].created_at}
    /\ goals \in SeqsUpTo(GoalRows, 1)
    /\ events = <<>>
    /\ db = SessionLocal
    /\ job = NoJob
    /\ last = NoCall
    /\ last_update = NoRun
    /\ runs = [w \in Workers |-> NoWork]
    /\ plans = <<>>
    /\ manager = NoManager

NextServerClock ==
    \/ Tick(1)
    \/ \E id \in StudentIds : CalculateStudentRisk(id, "none")

SpecServerClock == InitServerClock /\ [][NextServerClock]_vars

\* Histories at the two ends of the score: a task completed on each of the
\* last n days or one open task past its due date, check-ins before and
\* after the cutoff and up to the server's clock, an open goal
MaxStreakDays == 7

StreakRows(n) ==
    [k \in 1..n |->
        [student_id |-> 1, status |-> "done", due_date |-> NULL,
         completed_at |-> Some(Epoch - timedelta(n - k))]]

ExtremeTasks ==
    {StreakRows(n) : n \in 0..MaxStreakDays} \cup
    {<<[student_id |-> 1, status |-> "todo", due_date |-> Some(Epoch - 1),
        completed_at |-> NULL]>>}

ExtremeCheckinRows ==
    [student_id : {1}, mood : {Some(1), Some(3), Some(5)},
     created_at : {Epoch + d : d \in {-timedelta(lookback_days) - DAY,
                                      -timedelta(7) - DAY, 0, 1}}]

ExtremeGoals ==
    {<<>>, <<[student_id |-> 1, status |-> "open",
              target_date |-> Some(Epoch)]>>}

InitExtremes ==
    /\ now = Epoch
    /\ ticks = 0
    /\ students = TwoStudents
    /\ tasks \in ExtremeTasks
    /\ checkins \in {c \in SeqsUpTo(ExtremeCheckinRows, MaxRows) :
                         \A i, j \in DOMAIN c :
                             i < j => c[i].created_at <= c[j].created_at}
    /\ goals \in ExtremeGoals
    /\ events = <<>>
    /\ db = SessionLocal
    /\ job = NoJob
    /\ last = NoCall
    /\ last_update = NoRun
    /\ runs = [w \in Workers |-> NoWork]
    /\ plans = <<>>
    /\ manager = NoManager

NextExtremes ==
    \/ Tick(1)
    \/ \E id \in StudentIds : CalculateStudentRisk(id, "none")

SpecExtremes == InitExtremes /\ [][NextExtremes]_vars

\* routers/plans.py

UnknownPlan == MaxPlans + 1

\* The active plans of a student other than plan `except`
ActivePlansOf(student_id, except) ==
    {i \in DOMAIN plans :
        /\ plans[i].student_id = student_id
        /\ i # except
        /\ plans[i].active}

Deactivated(ids) ==
    [i \in DOMAIN plans |->
        IF i \in ids THEN [plans[i] EXCEPT !.active = FALSE] ELSE plans[i]]

create_plan(student_id) ==
    /\ Len(plans) < MaxPlans
    /\ IF student_id \notin StudentIds
       THEN /\ last' = [op |-> "create_plan", arg |-> student_id,
                        outcome |-> "not_found", data |-> NoResult]
            /\ plans' = plans
       ELSE /\ plans' = Append(Deactivated(ActivePlansOf(student_id, 0)),
                               [student_id |-> student_id, active |-> FALSE])
            /\ last' = [op |-> "create_plan", arg |-> Len(plans) + 1,
                        outcome |-> "ok", data |-> NoResult]
    /\ last_update' = NoRun
    /\ UNCHANGED <<now, ticks, students, tasks, checkins, goals, events, db,
                   job, runs, manager>>

\* PlanUpdate: the fields of the body that are set (the plan document itself
\* is left out)
PlanUpdates == [active : {NULL, Some(TRUE), Some(FALSE)}]

update_plan(plan_id, plan_data) ==
    /\ IF plan_id \notin DOMAIN plans
       THEN /\ last' = [op |-> "update_plan", arg |-> plan_id,
                        outcome |-> "not_found", data |-> NoResult]
            /\ plans' = plans
       ELSE /\ plans' = [plans EXCEPT ![plan_id].active =
                            IF plan_data.active # NULL
                            THEN Val(plan_data.active) ELSE @]
            /\ last' = [op |-> "update_plan", arg |-> plan_id,
                        outcome |-> "ok", data |-> NoResult]
    /\ last_update' = NoRun
    /\ UNCHANGED <<now, ticks, students, tasks, checkins, goals, events, db,
                   job, runs, manager>>

activate_plan(plan_id) ==
    /\ IF plan_id \notin DOMAIN plans
       THEN /\ last' = [op |-> "activate_plan", arg |-> plan_id,
                        outcome |-> "not_found", data |-> NoResult]
            /\ plans' = plans
       ELSE /\ LET other_plans ==
                       ActivePlansOf(plans[plan_id].student_id, plan_id)
               IN  plans' = [Deactivated(other_plans)
                                EXCEPT ![plan_id].active = TRUE]
            /\ last' = [op |-> "activate_plan", arg |-> plan_id,
                        outcome |-> "ok", data |-> NoResult]
    /\ last_update' = NoRun
    /\ UNCHANGED <<now, ticks, students, tasks, checkins, goals, events, db,
                   job, runs, manager>>

NextPlans ==
    \/ create_student(NULL)
    \/ \E id \in 1..UnknownId : create_plan(id)
    \/ \E id \in 1..UnknownPlan, plan_data \in PlanUpdates :
          update_plan(id, plan_data)
    \/ \E id \in 1..UnknownPlan : activate_plan(id)

SpecPlans == Init /\ [][NextPlans]_vars

\* websocket_manager.py ConnectionManager and main.py websocket_endpoint.
\* One send_personal_message or broadcast is under way at a time; it gives
\* up the event loop only at await websocket.send_text (pc "sending"), and
\* connect, a peer closing and disconnect run only then or while no send is
\* under way.

AtAwait == manager.op.pc \in {"idle", "sending"}

Without(f, k) == [i \in (DOMAIN f) \ {k} |-> f[i]]

\* The send under way iterates the set object user_connections[user_id]
IteratesSetOf(user_id) ==
    /\ manager.op.kind = "personal"
    /\ manager.op.pc # "idle"
    /\ manager.op.live
    /\ manager.op.user_id = user_id

\* connect: the token is verified and the connection stored, or the socket
\* is closed with code 4001
connect(c, authenticated) ==
    /\ AtAwait
    /\ manager.sockets[c] = "new"
    /\ LET user_id == UserOf(c)
           uc == manager.user_connections
       IN  manager' =
             IF ~authenticated
             THEN [manager EXCEPT !.sockets[c] = "done"]
             ELSE [manager EXCEPT
                     !.sockets[c] = "open",
                     !.active_connections = @ \cup {c},
                     !.user_connections =
                         IF user_id \in DOMAIN uc
                         THEN [uc EXCEPT ![user_id] = @ \cup {c}]
                         ELSE Put(uc, user_id, {c}),
                     !.op.iterated =
                         IF IteratesSetOf(user_id) THEN @ \cup {c} ELSE @]
    /\ UNCHANGED <<now, ticks, students, tasks, checkins, goals, events, db,
                   job, last, last_update, runs, plans>>

\* The peer of an open websocket goes away: sends to it raise from now on
\* and receive_text in websocket_endpoint raises WebSocketDisconnect
PeerCloses(c) ==
    /\ AtAwait
    /\ manager.sockets[c] = "open"
    /\ manager' = [manager EXCEPT !.sockets[c] = "gone"]
    /\ UNCHANGED <<now, ticks, students, tasks, checkins, goals, events, db,
                   job, last, last_update, runs, plans>>

\* websocket_endpoint's except clause: manager.disconnect(websocket, user_id)
disconnect(c) ==
    /\ AtAwait
    /\ manager.sockets[c] = "gone"
    /\ LET user_id == UserOf(c)
           uc == manager.user_connections
           rest == IF user_id \in DOMAIN uc THEN uc[user_id] \ {c} ELSE {}
       IN  manager' =
             [manager EXCEPT
                !.sockets[c] = "done",
                !.active_connections = @ \ {c},
                !.user_connections =
                    IF user_id \notin DOMAIN uc THEN uc
                    ELSE IF rest = {} THEN Without(uc, user_id)
                    ELSE [uc EXCEPT ![user_id] = rest],
                !.op.iterated =
                    IF IteratesSetOf(user_id) THEN @ \ {c} ELSE @,
                !.op.live =
                    IF IteratesSetOf(user_id) THEN rest # {} ELSE @]
    /\ UNCHANGED <<now, ticks, students, tasks, checkins, goals, events, db,
                   job, last, last_update, runs, plans>>

\* send_personal_message up to the for statement
send_personal_message(user_id) ==
    /\ manager.op.pc = "idle"
    /\ manager' =
         [manager EXCEPT !.op =
            IF user_id \notin DOMAIN manager.user_connections
            THEN [NoOp EXCEPT !.kind = "personal", !.user_id = user_id,
                              !.outcome = "returned"]
            ELSE [NoOp EXCEPT
                    !.kind = "personal", !.pc = "next",
                    !.user_id = user_id,
                    !.size = Cardinality(manager.user_connections[user_id]),
                    !.iterated = manager.user_connections[user_id],
                    !.live = TRUE,
                    !.outcome = "running"]]
    /\ UNCHANGED <<now, ticks, students, tasks, checkins, goals, events, db,
                   job, last, last_update, runs, plans>>

\* broadcast up to the for statement
broadcast ==
    /\ manager.op.pc = "idle"
    /\ manager' =
         [manager EXCEPT !.op =
            [NoOp EXCEPT !.kind = "broadcast", !.pc = "next",
                         !.size = Cardinality(manager.active_connections),
                         !.outcome = "running"]]
    /\ UNCHANGED <<now, ticks, students, tasks, checkins, goals, events, db,
                   job, last, last_update, runs, plans>>

\* The container the for statement of the send under way iterates
Iterated ==
    IF manager.op.kind = "personal" THEN manager.op.iterated
    ELSE manager.active_connections

\* send_personal_message lines 77-85, after the loop
PersonalCleanUp ==
    LET op == manager.op
        uc == manager.user_connections
    IN  IF op.user_id \notin DOMAIN uc
        THEN [manager EXCEPT !.op.pc = "idle", !.op.outcome = "raised"]
        ELSE LET rest == uc[op.user_id] \ op.disconnected IN
             [manager EXCEPT
                !.active_connections = @ \ op.disconnected,
                !.user_connections =
                    IF rest = {} THEN Without(uc, op.user_id)
                    ELSE [uc EXCEPT ![op.user_id] = rest],
                !.op.pc = "idle",
                !.op.outcome = "returned"]

\* broadcast lines 124-128, after the loop: the ids of `done` are deleted;
\* del raises KeyError at an id that is no longer a key
BroadcastCleanUp(done) ==
    LET op == manager.op IN
    [manager EXCEPT
        !.active_connections = @ \ done,
        !.user_connections =
            [u \in DOMAIN @ |-> @[u] \ done],
        !.op.pc = "idle",
        !.op.outcome =
            IF op.disconnected \subseteq manager.active_connections
            THEN "returned" ELSE "raised"]

\* The for statement asks its iterator for the next connection: the
\* iterator raises RuntimeError when the size of the container is not the
\* size it had when the loop began; otherwise the loop ends, or a connection
\* not yet visited is taken and its send awaited
IterNext ==
    /\ manager.op.pc = "next"
    /\ LET op == manager.op IN
       IF Cardinality(Iterated) # op.size
       THEN manager' = [manager EXCEPT !.op.pc = "idle",
                                       !.op.outcome = "raised"]
       ELSE IF Iterated \ op.visited = {}
       THEN IF op.kind = "personal"
            THEN manager' = PersonalCleanUp
            ELSE IF op.disconnected \subseteq manager.active_connections
            THEN manager' = BroadcastCleanUp(op.disconnected)
            ELSE \E done \in SUBSET (op.disconnected
                                        \cap manager.active_connections) :
                    manager' = BroadcastCleanUp(done)
       ELSE \E c \in Iterated \ op.visited :
               manager' =
                 IF op.kind = "broadcast"
                    \/ c \in manager.active_connections
                 THEN [manager EXCEPT !.op.pc = "sending",
                                      !.op.current = c,
                                      !.op.visited = @ \cup {c}]
                 ELSE [manager EXCEPT !.op.visited = @ \cup {c},
                                      !.op.disconnected = @ \cup {c}]
    /\ UNCHANGED <<now, ticks, students, tasks, checkins, goals, events, db,
                   job, last, last_update, runs, plans>>

\* await websocket.send_text(...) returns, or raises when the peer is gone
SendCompletes ==
    /\ manager.op.pc = "sending"
    /\ manager' =
         [manager EXCEPT
            !.op.pc = "next",
            !.op.disconnected =
                IF manager.sockets[manager.op.current] = "open" THEN @
                ELSE @ \cup {manager.op.current}]
    /\ UNCHANGED <<now, ticks, students, tasks, checkins, goals, events, db,
                   job, last, last_update, runs, plans>>

NextManager ==
    \/ \E c \in Conns, authenticated \in BOOLEAN : connect(c, authenticated)
    \/ \E c \in Conns : PeerCloses(c)
    \/ \E c \in Conns : disconnect(c)
    \/ \E c \in Conns : send_personal_message(UserOf(c))
    \/ broadcast
    \/ IterNext
    \/ SendCompletes

SpecManager == Init /\ [][NextManager]_vars

\* The task handlers with every update body
NextTask ==
    \/ \E d \in TickSteps : Tick(d)
    \/ \E gpa \in GpaValues : create_student(gpa)
    \/ \E id \in StudentIds, due_date \in Dates : create_task(id, due_date)
    \/ \E id \in DOMAIN tasks, task_data \in TaskUpdates :
          update_task(id, task_data)

SpecTask == Init /\ [][NextTask]_vars

\* Two workers updating the score of one student while its tasks change
NextRace ==
    \/ \E d \in TickSteps : Tick(d)
    \/ students = <<>> /\ create_student(NULL)
    \/ \E id \in StudentIds, d \in DateOffsets : create_task(id, Some(now + d))
    \/ \E w \in Workers, id \in StudentIds : RunCompute(w, id)
    \/ \E w \in Workers : RunCommit(w)

SpecRace == Init /\ [][NextRace]_vars

----------------------------------------------------------------------------
\* Claims

InUnitInterval(x) == RLe(Zero, x) /\ RLe(x, One)

Calculated == last.op = "calculate" /\ last.outcome = "ok"

\* C1: whatever tasks, check-ins and goals the handlers have recorded,
\* calculate_student_risk returns a risk_score in the closed interval [0,1]
C1_ScoreInUnitInterval ==
    Calculated => InUnitInterval(last.data.risk_score)

C1_Witness ==
    /\ Calculated
    /\ tasks # <<>> /\ checkins # <<>> /\ goals # <<>>
    /\ last.data.risk_score # Rat(45, 100)
    /\ last.data.factors.engagement < lookback_days

SeverityIs(score, severity) ==
    /\ severity \in {"low", "medium", "high"}
    /\ severity = "low" <=> RLt(score, Rat(33, 100))
    /\ severity = "medium" <=>
           (RLe(Rat(33, 100), score) /\ RLt(score, Rat(66, 100)))
    /\ severity = "high" <=> RLe(Rat(66, 100), score)

\* C2: severity is "low" exactly below 0.33, "medium" exactly from 0.33 up
\* to but not including 0.66 and "high" exactly from 0.66; the severity
\* calculate_student_risk returns is this function of the returned score
C2_SeverityThresholds ==
    /\ last.op = "severity" => SeverityIs(last.arg, last.data)
    /\ Calculated => SeverityIs(last.data.risk_score, last.data.severity)

C2_Witness ==
    /\ last.op = "severity"
    /\ last.arg = Rat(66, 100)
    /\ last.data = "high"

\* C3: in every committed state a student without a risk_score_updated
\* event has its initial score, and any other student's stored score is the
\* risk_score of its most recent risk_score_updated event
C3_ScoreMatchesLastEvent ==
    \A s \in StudentIds :
        LET ev == EventsOf(s) IN
        IF ev = <<>> THEN students[s].risk_score = Zero
        ELSE students[s].risk_score = ev[Len(ev)].payload.risk_score

\* C4: while the job runs, a student whose update failed keeps the stored
\* score and the events it had before the failed call, whatever the session
\* commits later
C4_FailedUpdateLeavesNothing ==
    job.pc = "loop" =>
        \A s \in DOMAIN job.failed :
            /\ students[s].risk_score = job.failed[s].risk_score
            /\ Len(EventsOf(s)) = job.failed[s].n

\* C5: calculate_student_risk and update_student_risk_score called with an
\* id that does not resolve raise not-found and change no score and no event
C5_NotFoundLeavesStore ==
    [][(last'.op \in {"calculate", "update"} /\ last'.arg \notin StudentIds)
        => (/\ last'.outcome = "not_found"
            /\ students' = students
            /\ events' = events)]_vars

C5_Witness ==
    /\ last.op = "update"
    /\ last.arg \notin StudentIds
    /\ last.outcome = "not_found"
    /\ events # <<>>

SecondGivesTheSame ==
    /\ last_update.score = last_update.prev_score
    /\ students[last_update.student_id].risk_score = last_update.prev_score
    /\ Len(EventsOf(last_update.student_id)) = last_update.n0 + 2

\* C6 as stated: two successive calls of update_student_risk_score for one
\* student with unchanged tasks, check-ins and goals return the same score,
\* leave the same stored score and append exactly two events
C6_TwiceSameScore ==
    last_update.k = 2 => SecondGivesTheSame

\* C6 as amended: the same, for two calls that read the same clock value
C6_TwiceSameScoreSameClock ==
    (last_update.k = 2 /\ last_update.same_clock) => SecondGivesTheSame

C6_Witness ==
    /\ last_update.k = 2
    /\ last_update.same_clock
    /\ \E t \in DOMAIN tasks : tasks[t].student_id = last_update.student_id

C8_OnlyUpdateWritesScore ==
    [][(\/ \E s \in StudentIds :
              students'[s].risk_score # students[s].risk_score
        \/ events' # events)
        => (last'.op = "update" /\ last'.outcome = "ok")]_vars

C8_Witness ==
    /\ last.op = "high_risk"
    /\ \E s \in StudentIds :
          students[s].gpa # NULL /\ students[s].risk_score # Zero

JobSuccesses == {k \in DOMAIN job.log : job.log[k].level = "info"}

\* C9: when the job ends it has not raised, and every student of the batch
\* whose own update was not made to fail has been scored in this run
C9_BatchNotAborted ==
    job.result \in {"completed", "raised"} =>
        /\ job.result = "completed"
        /\ \A i \in DOMAIN job.students :
              job.students[i] \notin DOMAIN job.failed =>
                  /\ \E k \in JobSuccesses :
                        job.log[k].student_id = job.students[i]
                  /\ \E j \in (job.events0 + 1)..Len(events) :
                        events[j].student_id = job.students[i]

\* C10: no step taken while the job runs (a later failure, a cancellation,
\* the end of the job) reverts a success of this run: the student keeps the
\* score and the event written for it
C10_SuccessesKept ==
    [][job.pc = "loop" =>
        \A k \in JobSuccesses :
            /\ students'[job.log[k].student_id].risk_score
                   = job.log[k].risk_score
            /\ \E j \in (job.events0 + 1)..Len(events') :
                  /\ events'[j].student_id = job.log[k].student_id
                  /\ events'[j].payload.risk_score = job.log[k].risk_score]_vars

C10_Witness ==
    /\ job.result \in {"raised", "cancelled"}
    /\ job.failed # <<>>
    /\ \E k \in JobSuccesses :
          students[job.log[k].student_id].risk_score = job.log[k].risk_score


Overlapped(v, w) ==
    /\ v # w
    /\ runs[v].pc = "done" /\ runs[w].pc = "done"
    /\ runs[v].student_id = runs[w].student_id
    /\ v \in runs[w].with \/ w \in runs[v].with

\* C11: when two update_student_risk_score runs for one student interleave,
\* each leaves one event carrying the score it computed and the stored score
\* is the score of the run that committed last
C11_LastCommitWins ==
    \A v, w \in Workers :
        (Overlapped(v, w) /\ runs[v].seq < runs[w].seq
         /\ runs[w].seq = Len(events)) =>
            /\ events[runs[v].seq].payload.risk_score = runs[v].data.risk_score
            /\ events[runs[w].seq].payload.risk_score = runs[w].data.risk_score
            /\ students[runs[w].student_id].risk_score
                   = runs[w].data.risk_score


NoRecords(student_id) ==
    /\ \A i \in DOMAIN tasks : tasks[i].student_id # student_id
    /\ \A i \in DOMAIN checkins : checkins[i].student_id # student_id
    /\ \A i \in DOMAIN goals : goals[i].student_id # student_id

SparseResult(data) ==
    /\ data.factors = [overdue_load |-> Zero, mood_trend |-> Zero,
                       streak |-> 0, engagement |-> 14,
                       goal_velocity |-> One, gpa_trend |-> Zero]
    /\ data.risk_score = Rat(45, 100)
    /\ data.severity = "medium"

\* C12: scoring a student without tasks, check-ins and goals is defined and
\* yields the raw factors 0, 0, 0, 14, 1.0, 0, the score 0.45 and the
\* severity "medium", whatever the clock and the other students' records
C12_SparseStudentScore ==
    /\ \A s \in StudentIds :
          NoRecords(s) => SparseResult(calculate_student_risk(s))
    /\ (Calculated /\ NoRecords(last.arg)) => SparseResult(last.data)

C12_Witness ==
    /\ Calculated
    /\ NoRecords(last.arg)
    /\ now > timedelta(lookback_days)
    /\ \E i \in DOMAIN tasks :
          calculate_student_risk(tasks[i].student_id).risk_score
              # Rat(45, 100)


UpdateStep == last'.op = "update" /\ now' = now

\* C13: a successful update_student_risk_score appends exactly one
\* risk_score_updated event of its student carrying the score, severity and
\* factors it returns; every other step of the engine and of the handlers
\* leaves the events as they are
C13_EventsAppendOnly ==
    [][IF UpdateStep /\ last'.outcome = "ok"
       THEN events' = Append(events,
                [student_id |-> last'.arg,
                 type |-> "risk_score_updated",
                 payload |-> [risk_score |-> last'.data.risk_score,
                              severity |-> last'.data.severity,
                              factors |-> last'.data.factors]])
       ELSE events' = events]_vars

C13_Witness ==
    /\ last.op = "update" /\ last.outcome = "ok"
    /\ Len(EventsOf(last.arg)) = 2
    /\ events[1].payload.risk_score # events[2].payload.risk_score


\* C14: after any sequence of create_task and update_task calls a task has
\* a completion timestamp if and only if its status is done
C14_CompletedIffDone ==
    \A i \in DOMAIN tasks :
        tasks[i].completed_at # NULL <=> tasks[i].status = "done"


\* The result that `last` holds was computed from the rows and the clock of
\* this state
CalculatedNow ==
    /\ Calculated
    /\ last.arg \in StudentIds
    /\ last.data = calculate_student_risk(last.arg)

OpenDue(student_id) ==
    {i \in DOMAIN tasks :
        /\ tasks[i].student_id = student_id
        /\ tasks[i].status \in {"todo", "doing"}
        /\ tasks[i].due_date # NULL}

Cutoff == now - timedelta(lookback_days)

OverdueNow(student_id) ==
    {i \in OpenDue(student_id) :
        Cutoff <= Val(tasks[i].due_date) /\ Val(tasks[i].due_date) < now}

AtLeastOne(n) == IF n < 1 THEN 1 ELSE n

\* C15 as stated: overdue_load is the number of open tasks due inside the
\* window and before now over the number of open tasks due inside the
\* window ending now, floored to 1; open tasks due after now do not count
C15_OverdueLoadInWindow ==
    \A s \in StudentIds :
        LET in_window == {i \in OpenDue(s) :
                             /\ Cutoff <= Val(tasks[i].due_date)
                             /\ Val(tasks[i].due_date) <= now}
        IN  RawFactors(s).overdue_load =
                Rat(Cardinality(OverdueNow(s)),
                    AtLeastOne(Cardinality(in_window)))

\* C15 as amended: the denominator counts every open task due at or after
\* the cutoff, those due after now included; open tasks due before the
\* cutoff, tasks without due date, done tasks and other students' tasks
\* change neither count
C15_OverdueLoadFromCutoff ==
    \A s \in StudentIds :
        LET from_cutoff == {i \in OpenDue(s) :
                               Cutoff <= Val(tasks[i].due_date)}
        IN  RawFactors(s).overdue_load =
                Rat(Cardinality(OverdueNow(s)),
                    AtLeastOne(Cardinality(from_cutoff)))

C15_Witness ==
    /\ CalculatedNow
    /\ last.data.factors.overdue_load = Rat(1, 2)
    /\ \E i \in OpenDue(last.arg) : Val(tasks[i].due_date) > now


\* The rated check-ins of a student created in [from, until]
Rated(student_id, from, until) ==
    {i \in DOMAIN checkins :
        /\ checkins[i].student_id = student_id
        /\ checkins[i].mood # NULL
        /\ from <= checkins[i].created_at
        /\ checkins[i].created_at <= until}

RatedCurrent(student_id) == Rated(student_id, Cutoff, now)

RatedPrior(student_id) ==
    Rated(student_id, Cutoff - timedelta(lookback_days), Cutoff - 1)

RECURSIVE MoodSum(_)
MoodSum(S) ==
    IF S = {} THEN 0
    ELSE LET i == CHOOSE j \in S : TRUE
         IN  Val(checkins[i].mood) + MoodSum(S \ {i})

MeanMood(S) == Rat(MoodSum(S), Cardinality(S))

\* C16 as stated: mood_trend is the mean rated mood of the current window
\* minus that of the window before it, and 0.0 when either has no rated
\* check-in
C16_MoodTrendCurrentMinusPrior ==
    \A s \in StudentIds :
        RawFactors(s).mood_trend =
            IF RatedCurrent(s) = {} \/ RatedPrior(s) = {} THEN Zero
            ELSE RSub(MeanMood(RatedCurrent(s)), MeanMood(RatedPrior(s)))

\* C16 as amended: mood_trend is the mean rated mood of the prior window
\* minus that of the current window, and 0.0 when either has no rated
\* check-in
C16_MoodTrendPriorMinusCurrent ==
    \A s \in StudentIds :
        RawFactors(s).mood_trend =
            IF RatedCurrent(s) = {} \/ RatedPrior(s) = {} THEN Zero
            ELSE RSub(MeanMood(RatedPrior(s)), MeanMood(RatedCurrent(s)))

C16_Witness ==
    /\ CalculatedNow
    /\ Cardinality(RatedPrior(last.arg)) = 2
    /\ last.data.factors.mood_trend = Rat(-3, 2)


BothRated(student_id) ==
    RatedCurrent(student_id) # {} /\ RatedPrior(student_id) # {}

\* C17: a lower mean mood in the current window than in the prior one gives
\* a positive mood_trend and a normalized value above 0.5, a higher mean a
\* normalized value below 0.5; the normalized value is clamp((x+2)/4, 0, 1)
\* and never decreases as the trend grows
C17_MoodDropRaisesRisk ==
    /\ \A s \in StudentIds :
          LET risk_data == calculate_student_risk(s)
              x == risk_data.factors.mood_trend
              n == risk_data.normalized_factors.mood_trend
              current == MeanMood(RatedCurrent(s))
              prior == MeanMood(RatedPrior(s))
          IN  /\ (BothRated(s) /\ RLt(current, prior)) =>
                     (RLt(Zero, x) /\ RLt(Rat(1, 2), n))
              /\ (BothRated(s) /\ RLt(prior, current)) => RLt(n, Rat(1, 2))
              /\ last.op = "normalize_mood_trend" =>
                     /\ RLe(x, last.arg) => RLe(n, last.data)
                     /\ RLe(last.arg, x) => RLe(last.data, n)
    /\ last.op = "normalize_mood_trend" =>
          /\ InUnitInterval(last.data)
          /\ (RLe(Rat(-2, 1), last.arg) /\ RLe(last.arg, Rat(2, 1))) =>
                 RMul(last.data, Rat(4, 1)) = RAdd(last.arg, Rat(2, 1))
          /\ RLe(Rat(2, 1), last.arg) => last.data = One
          /\ RLe(last.arg, Rat(-2, 1)) => last.data = Zero

C17_Witness ==
    /\ last.op = "normalize_mood_trend"
    /\ last.arg = Rat(1, 2)
    /\ \E s \in StudentIds :
          /\ BothRated(s)
          /\ RawFactors(s).mood_trend = Rat(3, 2)


MoodsIn(S) == {Val(checkins[i].mood) : i \in S}

Least(S) == CHOOSE m \in S : \A n \in S : m <= n

Greatest(S) == CHOOSE m \in S : \A n \in S : n <= m

\* A window without rated check-in gives the trend 0.0, whatever unrated
\* check-ins it holds; otherwise the trend lies between the extreme
\* differences of the rated moods, which a mood counted as 0 would leave
NullMoodsExcluded ==
    \A s \in StudentIds :
        LET x == RawFactors(s).mood_trend
            current == MoodsIn(RatedCurrent(s))
            prior == MoodsIn(RatedPrior(s))
        IN  IF BothRated(s)
            THEN /\ RLe(Rat(Least(prior) - Greatest(current), 1), x)
                 /\ RLe(x, Rat(Greatest(prior) - Least(current), 1))
            ELSE x = Zero

AddsNullMood ==
    /\ Len(checkins') = Len(checkins) + 1
    /\ checkins'[Len(checkins')].mood = NULL

\* C18: check-ins without mood are left out of both averages and never
\* counted as 0: creating one changes no student's mood_trend, and a window
\* holding only such check-ins counts as a window without rated check-in
C18_NullMoodsLeftOut ==
    /\ []NullMoodsExcluded
    /\ [][AddsNullMood =>
              \A s \in StudentIds :
                  RawFactors(s)'.mood_trend = RawFactors(s).mood_trend]_vars

C18_Witness ==
    /\ now = Epoch + 1
    /\ Len(checkins) = 2
    /\ checkins[2].mood = NULL
    /\ checkins[2].created_at = now
    /\ checkins[1].student_id = checkins[2].student_id
    /\ checkins[1].mood = Some(5)
    /\ checkins[1].created_at = Cutoff - 1


\* The student has a task of status done completed on the day `back` days
\* before today
CompletedOn(student_id, back) ==
    \E i \in DOMAIN tasks :
        /\ tasks[i].student_id = student_id
        /\ tasks[i].status = "done"
        /\ tasks[i].completed_at # NULL
        /\ date(Val(tasks[i].completed_at)) = date(now) - back

IsCurrentStreak(student_id, k, max_days) ==
    /\ k \in 0..max_days
    /\ \A back \in 0..(k - 1) : CompletedOn(student_id, back)
    /\ k = max_days \/ ~CompletedOn(student_id, k)

\* C19: the current streak is the largest k up to maxDays such that each of
\* the days today, today-1, ..., today-(k-1) has a completed task: days
\* beyond the first missing day never count, and no completion today means
\* a streak of 0
C19_StreakStopsAtGap ==
    \A s \in StudentIds :
        /\ IsCurrentStreak(s, RawFactors(s).streak, lookback_days)
        /\ IsCurrentStreak(s, current_streak(s), analytics_days)
        /\ ~CompletedOn(s, 0) =>
               (RawFactors(s).streak = 0 /\ current_streak(s) = 0)

C19_Witness ==
    /\ CalculatedNow
    /\ last.data.factors.streak = 3
    /\ CompletedOn(last.arg, 5)
    /\ now = Epoch + 1


\* The student's check-ins created inside the window, rated or not
InWindow(student_id) ==
    {i \in DOMAIN checkins :
        /\ checkins[i].student_id = student_id
        /\ Cutoff <= checkins[i].created_at
        /\ checkins[i].created_at <= now}

GoalsOf(student_id) ==
    {i \in DOMAIN goals : goals[i].student_id = student_id}

\* C21: goal_velocity is the number of the student's done goals without
\* target date or with a target date at or after now, over the number of
\* its goals with a target date in the window, and 1.0 when there is no
\* such goal; a done goal without target date counts as completed on time
C21_GoalVelocity ==
    \A s \in StudentIds :
        LET on_time == {i \in GoalsOf(s) :
                           /\ goals[i].status = "done"
                           /\ \/ goals[i].target_date = NULL
                              \/ Val(goals[i].target_date) >= now}
            in_window == {i \in GoalsOf(s) :
                             /\ goals[i].target_date # NULL
                             /\ Val(goals[i].target_date) >= Cutoff}
        IN  RawFactors(s).goal_velocity =
                IF in_window = {} THEN One
                ELSE Rat(Cardinality(on_time), Cardinality(in_window))


\* C22: each of the six normalized factors calculate_student_risk returns
\* lies in [0,1], also for check-ins and goals dated after now
C22_NormalizedInUnitInterval ==
    \A s \in StudentIds :
        LET n == calculate_student_risk(s).normalized_factors IN
        /\ InUnitInterval(n.overdue_load)
        /\ InUnitInterval(n.mood_trend)
        /\ InUnitInterval(n.streak)
        /\ InUnitInterval(n.engagement)
        /\ InUnitInterval(n.goal_velocity)
        /\ InUnitInterval(n.gpa_trend)


ReturnedByDefault(s) ==
    \E k \in DOMAIN get_high_risk_students(SessionLocal, DefaultThreshold) :
        get_high_risk_students(SessionLocal, DefaultThreshold)[k].student_id
            = s

\* C23: after update_student_risk_score(s) succeeds, get_high_risk_students()
\* with the default threshold returns s exactly when the severity returned
\* for s was "high"
C23_DefaultThresholdIsHighBoundary ==
    (last.op = "update" /\ last.outcome = "ok") =>
        (ReturnedByDefault(last.arg) <=> last.data.severity = "high")

C23_Witness ==
    /\ last.op = "update"
    /\ last.outcome = "ok"
    /\ last.data.severity = "high"
    /\ ReturnedByDefault(last.arg)
    /\ \E t \in StudentIds : ~ReturnedByDefault(t)


\* C24: when run_risk_scoring finishes, the students it collected and logged
\* as high-risk are exactly the students whose update in this run succeeded
\* with severity "high"
C24_HighRiskLoggedExactly ==
    (job.pc = "idle" /\ job.result \in {"completed", "raised"}) =>
        {alerts[k].student_id : k \in DOMAIN alerts} =
            {job.log[k].student_id :
                k \in {j \in JobSuccesses : job.log[j].severity = "high"}}


Unowned(rows, s) ==
    LET mine == SelectSeq(rows, LAMBDA r : r.student_id = s)
    IN  [k \in DOMAIN mine |-> [mine[k] EXCEPT !.student_id = 0]]

RecordsOf(s) ==
    [tasks |-> Unowned(tasks, s),
     checkins |-> Unowned(checkins, s),
     goals |-> Unowned(goals, s)]

\* C25: calculate_student_risk returns the same score, severity and factors
\* for the same tasks, check-ins and goals at the same clock value, whatever
\* the stored risk score, the GPA and the past audit events are (the two
\* stores are the rows of two students of one store)
C25_NoIncrementalState ==
    \A s, t \in StudentIds :
        RecordsOf(s) = RecordsOf(t) =>
            calculate_student_risk(s) = calculate_student_risk(t)

C25_Witness ==
    \E s, t \in StudentIds :
        /\ RecordsOf(s) = RecordsOf(t)
        /\ RecordsOf(s).tasks # <<>>
        /\ students[s].gpa # students[t].gpa
        /\ students[s].risk_score # students[t].risk_score
        /\ Len(EventsOf(s)) # Len(EventsOf(t))


\* C26: the score calculate_student_risk returns is never below 0.05 and
\* never above 0.95, it is strictly positive, and the clamp to [0,1] leaves
\* the weighted sum as it is
C26_ScoreBetweenFiveAndNinetyFive ==
    \A s \in StudentIds :
        LET r == calculate_student_risk(s) IN
        /\ RLe(Rat(5, 100), r.risk_score)
        /\ RLe(r.risk_score, Rat(95, 100))
        /\ RLt(Zero, r.risk_score)
        /\ r.risk_score = WeightedSum(r.normalized_factors, 6)


\* The step marks the open task i done with completion time now and changes
\* nothing else
Completes(i) ==
    /\ tasks[i].status \in OpenStatuses
    /\ tasks' = [tasks EXCEPT ![i] = [@ EXCEPT !.status = "done",
                                               !.completed_at = Some(now)]]
    /\ checkins' = checkins
    /\ goals' = goals
    /\ now' = now

\* The score of the owner of task i does not go up in the step
ScoreNotRaised(i) ==
    \E before \in {calculate_student_risk(tasks[i].student_id).risk_score} :
        \E factors \in {RawFactors(tasks[i].student_id)'} :
            RLe(risk_data_of(factors).risk_score, before)

\* C27 as stated: marking any open task done, the rest and the clock held
\* fixed, leaves the score less than or equal to the score before
C27_CompletingNeverRaises ==
    [][\A i \in DOMAIN tasks : Completes(i) => ScoreNotRaised(i)]_vars

\* C27 amended: marking done an open task that has no due date or whose due
\* date is before now leaves the score less than or equal to the score before
C27_CompletingDueTaskNeverRaises ==
    [][\A i \in DOMAIN tasks :
          (/\ Completes(i)
           /\ \/ tasks[i].due_date = NULL
              \/ Val(tasks[i].due_date) < now) => ScoreNotRaised(i)]_vars

C27_Witness ==
    \E i \in DOMAIN tasks :
        /\ tasks[i].status = "done"
        /\ tasks[i].completed_at = Some(now)
        /\ tasks[i].due_date # NULL
        /\ Val(tasks[i].due_date) < now
        /\ Val(tasks[i].due_date) >= Cutoff
        /\ last.op = "calculate"
        /\ last.arg = tasks[i].student_id
        /\ RLt(last.data.risk_score, Rat(75, 100))


\* The dates d, d+1, ..., d+k-1 are all in the set
RunAt(dates, d, k) == \A j \in 0..(k - 1) : (d + j) \in dates

C29_OneActivePlan ==
    /\ \A s \in StudentIds : Cardinality(ActivePlansOf(s, 0)) <= 1
    /\ (last.op = "activate_plan" /\ last.outcome = "ok") =>
           /\ plans[last.arg].active
           /\ ActivePlansOf(plans[last.arg].student_id, last.arg) = {}


Registered ==
    manager.active_connections \cup
    UNION {manager.user_connections[u] : u \in DOMAIN manager.user_connections}

\* C30: whatever connect and disconnect do while a send_personal_message or
\* broadcast is under way, the operation completes without raising, and
\* once it is over every connection id listed under a user is a key of
\* active_connections and no disconnected or failed connection is left in
\* either map
C30_InFlightSendCompletes ==
    /\ manager.op.outcome # "raised"
    /\ manager.op.pc = "idle" =>
          /\ \A u \in DOMAIN manager.user_connections :
                manager.user_connections[u]
                    \subseteq manager.active_connections
          /\ \A c \in Conns :
                manager.sockets[c] = "done" => c \notin Registered
          /\ manager.op.outcome = "returned" =>
                manager.op.disconnected \cap Registered = {}

====
